---- MODULE Spec2Model ----
(***************************************************************************)
(* catfishAPIAgg (src/main.py): a reverse proxy in front of several        *)
(* OpenAI-compatible upstreams.  The model covers the two persisted        *)
(* documents (config.json, stats.json), the state store                    *)
(* (get_stats, update_stats_and_state), the scheduler and the dispatcher   *)
(* of proxy_chat_completions, with several requests in flight.             *)
(*                                                                         *)
(* Every block of code that runs under file_lock is one atomic action: all *)
(* accesses to the two files are made under that lock, so what other       *)
(* coroutines do while the holder awaits its file I/O cannot be observed.  *)
(* Optional values (None / a missing key) are sets: {} or {v}.             *)
(***************************************************************************)
EXTENDS Integers, Sequences, FiniteSets, TLC

\* ------------------------------------------------------------------ bounds
MaxTime == 2          \* the clock runs over 0..MaxTime
TicksPerDay == 2      \* clock ticks in one local calendar day
MaxOps == 2           \* operations (proxy requests, stats reads) started in a run
MaxAdminOps == 3      \* operations started in a run with admin mutations

Procs == {"p1", "p2"} \* concurrent clients (coroutines handling a request)

\* ------------------------------------------------------------- the config
\* An upstream (ApiConfig): id, priority and the two optional breaker fields.
Upstream(id, priority, threshold, duration) ==
    [id |-> id, priority |-> priority,
     consecutive_failure_threshold |-> threshold,
     disable_duration_seconds |-> duration]

\* The scheme names the model uses, in lexicographic order.
SchemeNames == <<"alpha", "beta">>

\* Model names a client may request: the schemes, an unknown name, no field.
RequestedModels == {"alpha", "beta", "zeta", "None"}

\* The model names that are schemes of the startup config
ConfiguredModels == {"alpha", "beta"}

\* config.json at startup.  alpha: a priority group of two armed peers; beta:
\* an upstream with only one of the two breaker fields set and a fallback of
\* lower priority without breaker.
InitialConfig ==
    [s \in {"alpha", "beta"} |->
        IF s = "alpha"
        THEN << Upstream("A", 1, {2}, {2}), Upstream("B", 1, {1}, {1}) >>
        ELSE << Upstream("C", 1, {1}, {}), Upstream("D", 2, {}, {}) >>]

\* str(uuid.uuid4()) of the n-th operation of a run: an id never used before
NewId(n) == "u" \o ToString(n)

\* The upstream ids: those of the startup configs and those create_config mints
Ids == {"A", "B", "C", "D"} \cup {NewId(n) : n \in 1..MaxAdminOps}

\* What an upstream can answer to one attempt: an HTTP status with a JSON or
\* a non-JSON body, or no HTTP response at all (transport error, timeout).
Transport == [status |-> 0, json |-> FALSE]
Responses ==
    { [status |-> 200, json |-> TRUE],
      [status |-> 200, json |-> FALSE],
      [status |-> 302, json |-> TRUE],
      [status |-> 500, json |-> TRUE],
      Transport }

\* ---------------------------------------------------------------- helpers
EmptyMap == [x \in {} |-> 0]
Get(f, k, d) == IF k \in DOMAIN f THEN f[k] ELSE d
Put(f, k, v) == [x \in (DOMAIN f) \cup {k} |-> IF x = k THEN v ELSE f[x]]
Restrict(f, S) == [x \in (DOMAIN f) \cap S |-> f[x]]

\* datetime.now().strftime("%Y-%m-%d") at clock value t
DateOf(t) == t \div TicksPerDay

\* str(config.priority), the key of a cursor in round_robin_state[scheme]
PriorityKey(priority) == ToString(priority)

\* Position of a scheme name in lexicographic order (sorted(...)[0] is the least)
RECURSIVE NameRank(_, _)
NameRank(name, i) ==
    IF i > Len(SchemeNames) THEN i
    ELSE IF SchemeNames[i] = name THEN i ELSE NameRank(name, i + 1)

\* ------------------------------------------------------------ stats.json
get_default_stats(t) ==
    [total |-> [success |-> 0, fail |-> 0],
     today |-> [date |-> DateOf(t), success |-> 0, fail |-> 0,
                by_config_id |-> EmptyMap],
     by_config_id |-> EmptyMap,
     round_robin_state |-> EmptyMap]

\* The row update_stats_and_state creates for an id it has not seen
NewRow == [success |-> 0, fail |-> 0, consecutive_fails |-> 0, disabled_until |-> {}]
NewTodayRow == [success |-> 0, fail |-> 0]

\* Mutant: the date check zeroes today's counters but keeps yesterday's rows
TodayAfterDateCheckKeepsRows(stats, t) ==
    IF stats.today.date # DateOf(t)
    THEN [date |-> DateOf(t), success |-> 0, fail |-> 0, by_config_id |-> stats.today.by_config_id]
    ELSE stats.today

\* stats["today"] after the date check: reset when the stored date is not today
TodayAfterDateCheck(stats, t) ==
    IF stats.today.date # DateOf(t)
    THEN [date |-> DateOf(t), success |-> 0, fail |-> 0, by_config_id |-> EmptyMap]
    ELSE stats.today

\* counters[key] + 1 with key = "success" if is_success else "fail"
Count(counters, is_success) ==
    IF is_success THEN [counters EXCEPT !.success = @ + 1]
    ELSE [counters EXCEPT !.fail = @ + 1]

\* Mutant: a success resets the count but leaves disabled_until in place
BreakerOnSuccessKeepsWindow(row) ==
    [row EXCEPT !.consecutive_fails = 0]

\* Breaker update of a row on a recorded success
BreakerOnSuccess(row) ==
    [row EXCEPT !.consecutive_fails = 0, !.disabled_until = {}]

\* Mutant: the breaker trips only once the count exceeds the threshold
BreakerOnFailureStrict(row, config, t) ==
    LET current_fails == row.consecutive_fails + 1
        trip == \E threshold \in config.consecutive_failure_threshold :
                \E duration \in config.disable_duration_seconds :
                    current_fails > threshold
    IN  [row EXCEPT
            !.consecutive_fails = current_fails,
            !.disabled_until =
                IF trip
                THEN {t + d : d \in config.disable_duration_seconds}
                ELSE @]

\* Mutant: a failure after the window has expired starts the count again
BreakerOnFailureAfterExpiryRestarts(row, config, t) ==
    LET expired == row.disabled_until # {} /\ \A d \in row.disabled_until : d <= t
        current_fails == IF expired THEN 1 ELSE row.consecutive_fails + 1
        trip == \E threshold \in config.consecutive_failure_threshold :
                \E duration \in config.disable_duration_seconds :
                    current_fails >= threshold
    IN  [row EXCEPT
            !.consecutive_fails = current_fails,
            !.disabled_until =
                IF trip
                THEN {t + d : d \in config.disable_duration_seconds}
                ELSE IF expired THEN {} ELSE @]

\* Breaker update of a row on a recorded failure at clock value t
BreakerOnFailure(row, config, t) ==
    LET current_fails == row.consecutive_fails + 1
        trip == \E threshold \in config.consecutive_failure_threshold :
                \E duration \in config.disable_duration_seconds :
                    current_fails >= threshold
    IN  [row EXCEPT
            !.consecutive_fails = current_fails,
            !.disabled_until =
                IF trip
                THEN {t + d : d \in config.disable_duration_seconds}
                ELSE @]

\* Mutant: the cursor stays on the upstream that succeeded
NextIndexStays(priority_group, success_index_in_group) ==
    IF priority_group # <<>>
    THEN success_index_in_group % Len(priority_group)
    ELSE 0

\* (success_index_in_group + 1) % len(priority_group) if priority_group else 0
NextIndex(priority_group, success_index_in_group) ==
    IF priority_group # <<>>
    THEN (success_index_in_group + 1) % Len(priority_group)
    ELSE 0

\* Mutant: the cursor is written on every outcome
RoundRobinUpdateAlways(rr, config, is_success, scheme_name, priority_group, success_index_in_group) ==
    Put(rr, scheme_name,
        Put(Get(rr, scheme_name, EmptyMap), PriorityKey(config.priority),
            NextIndex(priority_group, success_index_in_group)))

\* round_robin_state after an outcome: written on success only
RoundRobinUpdate(rr, config, is_success, scheme_name, priority_group, success_index_in_group) ==
    IF is_success
    THEN Put(rr, scheme_name,
             Put(Get(rr, scheme_name, EmptyMap), PriorityKey(config.priority),
                 NextIndex(priority_group, success_index_in_group)))
    ELSE rr

\* The stats document update_stats_and_state writes back, from the document
\* it read, at clock value t
update_stats_and_state(stats, config, is_success, scheme_name, priority_group, success_index_in_group, t) ==
    LET today == TodayAfterDateCheck(stats, t)
        row == Count(Get(stats.by_config_id, config.id, NewRow), is_success)
        todayRow == Count(Get(today.by_config_id, config.id, NewTodayRow), is_success)
        config_stats == IF is_success THEN BreakerOnSuccess(row)
                        ELSE BreakerOnFailure(row, config, t)
    IN  [total |-> Count(stats.total, is_success),
         today |-> [date |-> today.date,
                    success |-> Count(today, is_success).success,
                    fail |-> Count(today, is_success).fail,
                    by_config_id |-> Put(today.by_config_id, config.id, todayRow)],
         by_config_id |-> Put(stats.by_config_id, config.id, config_stats),
         round_robin_state |->
             RoundRobinUpdate(stats.round_robin_state, config, is_success,
                              scheme_name, priority_group, success_index_in_group)]

\* ------------------------------------------------------------ config.json
\* configs.sort(key=lambda x: x.priority): a stable sort
RECURSIVE InsertByPriority(_, _)
InsertByPriority(sorted, c) ==
    IF sorted = <<>> THEN <<c>>
    ELSE IF sorted[Len(sorted)].priority <= c.priority THEN Append(sorted, c)
    ELSE Append(InsertByPriority(SubSeq(sorted, 1, Len(sorted) - 1), c),
                sorted[Len(sorted)])

RECURSIVE SortByPriority(_)
SortByPriority(configs) ==
    IF configs = <<>> THEN <<>>
    ELSE InsertByPriority(SortByPriority(SubSeq(configs, 1, Len(configs) - 1)),
                          configs[Len(configs)])

\* Mutant: an empty file is read as one scheme "default" without upstreams
get_all_schemes_default(file) ==
    IF DOMAIN file = {} THEN [s \in {"default"} |-> <<>>]
    ELSE [s \in DOMAIN file |-> SortByPriority(file[s])]

\* get_all_schemes(): every scheme of the file, sorted by priority
get_all_schemes(file) == [s \in DOMAIN file |-> SortByPriority(file[s])]

\* {c.id for scheme in all_schemes.values() for c in scheme}
ConfigIds(schemes) ==
    UNION {{schemes[s][i].id : i \in 1..Len(schemes[s])} : s \in DOMAIN schemes}

\* ---------------------------------------------------------------- scheduler
\* Mutant: the fallback is the scheme whose name comes last
SelectSchemeLast(all_schemes, requested_model) ==
    IF requested_model \in DOMAIN all_schemes /\ all_schemes[requested_model] # <<>>
    THEN requested_model
    ELSE CHOOSE s \in DOMAIN all_schemes :
            \A o \in DOMAIN all_schemes : NameRank(s, 1) >= NameRank(o, 1)

\* The scheme a request is dispatched on: the requested one when it exists
\* and is not empty, else the lexicographically first
SelectScheme(all_schemes, requested_model) ==
    IF requested_model \in DOMAIN all_schemes /\ all_schemes[requested_model] # <<>>
    THEN requested_model
    ELSE CHOOSE s \in DOMAIN all_schemes :
            \A o \in DOMAIN all_schemes : NameRank(s, 1) <= NameRank(o, 1)

\* Mutant: the comparison of the filter is turned around
IsTrippedReversed(row, now_time) == \E disabled_until \in row.disabled_until :
    now_time > disabled_until

\* An upstream is skipped when its row has disabled_until and now < disabled_until
IsTripped(row, now_time) == \E disabled_until \in row.disabled_until :
    now_time < disabled_until

\* Mutant: when every upstream is tripped the filter lets them all through
ActiveConfigsFailOpen(target_scheme_configs, stats, now_time) ==
    LET open == SelectSeq(target_scheme_configs,
                          LAMBDA c : ~IsTripped(Get(stats.by_config_id, c.id, NewRow), now_time))
    IN  IF open = <<>> THEN target_scheme_configs ELSE open

\* active_configs: the scheme's upstreams that are not tripped in the snapshot
ActiveConfigs(target_scheme_configs, stats, now_time) ==
    SelectSeq(target_scheme_configs,
              LAMBDA c : ~IsTripped(Get(stats.by_config_id, c.id, NewRow), now_time))

\* priority_groups[priority]
PriorityGroup(active_configs, priority) ==
    SelectSeq(active_configs, LAMBDA c : c.priority = priority)

\* group[next_index:] + group[:next_index], next_index reset to 0 when it is
\* not below len(group)
Rotate(group, stored) ==
    LET next_index == IF stored >= Len(group) THEN 0 ELSE stored
    IN  SubSeq(group, next_index + 1, Len(group)) \o SubSeq(group, 1, next_index)

\* The attempt queue: the rotated groups in ascending priority order
RECURSIVE QueueOver(_, _, _)
QueueOver(priorities, active_configs, rr_for_scheme) ==
    IF priorities = {} THEN <<>>
    ELSE LET p == CHOOSE x \in priorities : \A y \in priorities : x <= y
         IN  Rotate(PriorityGroup(active_configs, p),
                    Get(rr_for_scheme, PriorityKey(p), 0))
             \o QueueOver(priorities \ {p}, active_configs, rr_for_scheme)

AttemptQueue(active_configs, round_robin_state_for_scheme) ==
    QueueOver({active_configs[i].priority : i \in 1..Len(active_configs)}, active_configs, round_robin_state_for_scheme)

\* original_group.index(config), 0-based
RECURSIVE IndexFrom(_, _, _)
IndexFrom(group, config, i) ==
    IF i > Len(group) THEN 0
    ELSE IF group[i] = config THEN i - 1 ELSE IndexFrom(group, config, i + 1)

IndexInGroup(group, config) == IndexFrom(group, config, 1)

\* ------------------------------------------------------------------ state
VARIABLES
    configFile,   \* data/config.json: scheme name -> list of upstreams
    statsFile,    \* data/stats.json: the state document
    now,          \* the clock: datetime.now()
    proc,         \* per client: where its handler stands and the handler's locals
    hist,         \* per client: what its current operation did, as observed
    ops,          \* operations started so far
    recorded,     \* per upstream id: update_stats_and_state calls completed
    served        \* the successes recorded so far, in the order recorded

vars == <<configFile, statsFile, now, proc, hist, ops, recorded, served>>

\* No step of a handler under way: no call out, no answer held, no lock asked
NoStep == [at |-> <<"idle", 0>>, phase |-> "none", response |-> {}, stream_end |-> "none"]

\* A client with no operation in flight, and one whose operation has
\* produced its response (the handler has nothing left to do)
IdleProc ==
    [pc |-> "idle", kind |-> "none", is_stream |-> FALSE, scheme_name |-> "none",
     target_scheme_configs |-> <<>>, active_configs |-> <<>>, attempt_queue |-> <<>>,
     pos |-> 0, last_error_response |-> {}, stats |-> {},
     round_robin_state_for_scheme |-> EmptyMap, schemes |-> {}, step |-> NoStep]

DoneProc == [IdleProc EXCEPT !.pc = "done"]

\* Observations of one operation: what was asked, the attempt queue built,
\* the attempts made (upstream id and its answer), the outcomes recorded, the
\* response handed to the client, how a committed stream ended, and what the
\* scheduler read: its clock value and each upstream's disabled_until; the
\* model name requested and the scheme selected; for an admin mutation, the
\* mutation asked for.
NoHist ==
    [kind |-> "none", is_stream |-> FALSE, queue |-> <<>>,
     attempts |-> <<>>, recs |-> <<>>, resp |-> {}, stream_end |-> "none",
     now_time |-> 0, snapshot |-> EmptyMap, mutation |-> {},
     requested_model |-> "None", scheme_name |-> "none"]

Started(kind, is_stream) == [NoHist EXCEPT !.kind = kind, !.is_stream = is_stream]

Init ==
    /\ configFile = InitialConfig
    /\ statsFile = get_default_stats(0)
    /\ now = 0
    /\ proc = [p \in Procs |-> IdleProc]
    /\ hist = [p \in Procs |-> NoHist]
    /\ ops = 0
    /\ recorded = [id \in Ids |-> [success |-> 0, fail |-> 0]]
    /\ served = <<>>

\* ------------------------------------------------------------- dispatcher
\* The candidate an attempt is about, its priority group and its index there
Candidate(r) == r.attempt_queue[r.pos]
OriginalGroup(r) == PriorityGroup(r.active_configs, Candidate(r).priority)
SuccessIndex(r) == IndexInGroup(OriginalGroup(r), Candidate(r))

\* response.raise_for_status(): httpx raises HTTPStatusError unless 2xx
RaisesForStatus(status) == ~(status \in 200..299)

\* Streaming: the head of the response fails the attempt when status >= 400
StreamHeadFails(status) == status >= 400

\* JSONResponse of the exhaustion path: the last HTTP error response when
\* there is one, else a synthetic 500
ExhaustedResponse(last_error_response) ==
    IF last_error_response # {} THEN last_error_response
    ELSE {[status |-> 500, from |-> "proxy"]}

\* The handler after a failed attempt: the loop goes to the next candidate,
\* or past the end of the queue to the exhaustion response
NextCandidate(r, last_error_response) ==
    IF r.pos < Len(r.attempt_queue)
    THEN [r EXCEPT !.pc = "attempt", !.pos = @ + 1,
                   !.last_error_response = last_error_response]
    ELSE DoneProc

ResponseAfterFailure(r, last_error_response) ==
    IF r.pos < Len(r.attempt_queue) THEN {}
    ELSE ExhaustedResponse(last_error_response)

\* update_stats_and_state under file_lock, for the candidate of client p
Record(p, is_success, priority_group, success_index_in_group) ==
    LET r == proc[p]
        config == Candidate(r)
    IN  /\ statsFile' = update_stats_and_state(statsFile, config, is_success, r.scheme_name, priority_group, success_index_in_group, now)
        /\ recorded' = [recorded EXCEPT ![config.id] = Count(@, is_success)]
        /\ served' = IF is_success
                     THEN Append(served, [scheme |-> r.scheme_name, priority |-> config.priority, id |-> config.id, read |-> Get(r.round_robin_state_for_scheme, PriorityKey(config.priority), 0)])
                     ELSE served

\* POST /v1/chat/completions up to get_all_schemes() and the scheme selection
BeginProxy(p, is_stream, requested_model) ==
    /\ proc[p].pc = "idle"
    /\ ops' = ops + 1
    /\ LET all_schemes == get_all_schemes(configFile)
       IN  IF DOMAIN all_schemes = {}
           THEN /\ proc' = [proc EXCEPT ![p] = DoneProc]
                /\ hist' = [hist EXCEPT ![p] = [Started("proxy", is_stream) EXCEPT
                                !.requested_model = requested_model,
                                !.resp = {[status |-> 500, from |-> "proxy"]}]]
           ELSE LET scheme_name == SelectScheme(all_schemes, requested_model)
                IN  /\ proc' = [proc EXCEPT ![p] =
                            [IdleProc EXCEPT !.pc = "get_stats", !.kind = "proxy",
                                             !.is_stream = is_stream,
                                             !.scheme_name = scheme_name,
                                             !.target_scheme_configs = all_schemes[scheme_name]]]
                    /\ hist' = [hist EXCEPT ![p] = [Started("proxy", is_stream) EXCEPT
                                    !.requested_model = requested_model,
                                    !.scheme_name = scheme_name]]
    /\ UNCHANGED <<configFile, statsFile, now, recorded, served>>

\* GET /admin/stats
BeginStats(p) ==
    /\ proc[p].pc = "idle"
    /\ ops' = ops + 1
    /\ proc' = [proc EXCEPT ![p] = [IdleProc EXCEPT !.pc = "get_stats", !.kind = "stats"]]
    /\ hist' = [hist EXCEPT ![p] = Started("stats", FALSE)]
    /\ UNCHANGED <<configFile, statsFile, now, recorded, served>>

\* The handler of client p once get_stats() has returned `stats`: the stats
\* read is answered; the proxy request filters the tripped upstreams, builds
\* the attempt queue and enters the attempt loop, or answers 503
AfterGetStats(r, stats) ==
    IF r.kind = "stats" THEN DoneProc
    ELSE LET active_configs == ActiveConfigs(r.target_scheme_configs, stats, now)
         IN  IF active_configs = <<>> THEN DoneProc
             ELSE [r EXCEPT !.pc = "attempt", !.stats = {},
                            !.active_configs = active_configs,
                            !.attempt_queue = AttemptQueue(active_configs, Get(stats.round_robin_state, r.scheme_name, EmptyMap)),
                            !.round_robin_state_for_scheme = Get(stats.round_robin_state, r.scheme_name, EmptyMap),
                            !.pos = 1]

ObservedAfterGetStats(r, h, stats) ==
    LET ids == {r.target_scheme_configs[i].id : i \in 1..Len(r.target_scheme_configs)}
        next == AfterGetStats(r, stats)
        seen == [h EXCEPT
                    !.now_time = now,
                    !.snapshot = [id \in ids |-> Get(stats.by_config_id, id, NewRow).disabled_until],
                    !.queue = [i \in 1..Len(next.attempt_queue) |-> next.attempt_queue[i].id]]
    IN  IF r.kind = "stats" THEN [h EXCEPT !.resp = {[status |-> 200, from |-> "proxy"]}]
        ELSE IF next.pc = "done"
             THEN [seen EXCEPT !.resp = {[status |-> 503, from |-> "proxy"]}]
             ELSE seen

\* get_stats(): read_json_file under the lock, then the date check
GetStatsRead(p) ==
    /\ proc[p].pc = "get_stats"
    /\ IF statsFile.today.date # DateOf(now)
       THEN /\ proc' = [proc EXCEPT ![p].pc = "get_stats_schemes",
                                    ![p].stats = {[statsFile EXCEPT !.today = TodayAfterDateCheck(statsFile, now)]}]
            /\ UNCHANGED hist
       ELSE /\ proc' = [proc EXCEPT ![p] = AfterGetStats(@, statsFile)]
            /\ hist' = [hist EXCEPT ![p] = ObservedAfterGetStats(proc[p], hist[p], statsFile)]
    /\ UNCHANGED <<configFile, statsFile, now, ops, recorded, served>>

\* get_stats() on a new day: get_all_schemes() and the pruning of the rows
\* of upstreams that are no longer configured
GetStatsSchemes(p) ==
    /\ proc[p].pc = "get_stats_schemes"
    /\ LET config_ids == ConfigIds(get_all_schemes(configFile))
       IN  proc' = [proc EXCEPT ![p].pc = "get_stats_write",
                                ![p].stats = {[s EXCEPT !.by_config_id = Restrict(@, config_ids)] : s \in @}]
    /\ UNCHANGED <<configFile, statsFile, now, hist, ops, recorded, served>>

\* get_stats() on a new day: write_json_file(STATS_FILE, stats), then return
GetStatsWrite(p) ==
    /\ proc[p].pc = "get_stats_write"
    /\ \E stats \in proc[p].stats :
        /\ statsFile' = stats
        /\ proc' = [proc EXCEPT ![p] = AfterGetStats(@, stats)]
        /\ hist' = [hist EXCEPT ![p] = ObservedAfterGetStats(proc[p], hist[p], stats)]
    /\ UNCHANGED <<configFile, now, ops, recorded, served>>

\* One non-streaming attempt: httpx_client.post, raise_for_status and the
\* outcome recorded for it
AttemptBuffered(p, response) ==
    LET r == proc[p]
        id == Candidate(r).id
        here == {[status |-> response.status, from |-> id]}
    IN  /\ r.pc = "attempt"
        /\ ~r.is_stream
        /\ IF response = Transport
           THEN /\ Record(p, FALSE, <<>>, 0)
                /\ proc' = [proc EXCEPT ![p] = NextCandidate(r, r.last_error_response)]
                /\ hist' = [hist EXCEPT ![p].attempts = Append(@, [id |-> id, response |-> response]),
                                        ![p].recs = Append(@, [id |-> id, is_success |-> FALSE]),
                                        ![p].resp = ResponseAfterFailure(r, r.last_error_response)]
           ELSE IF RaisesForStatus(response.status)
           THEN /\ Record(p, FALSE, <<>>, 0)
                /\ proc' = [proc EXCEPT ![p] = NextCandidate(r, here)]
                /\ hist' = [hist EXCEPT ![p].attempts = Append(@, [id |-> id, response |-> response]),
                                        ![p].recs = Append(@, [id |-> id, is_success |-> FALSE]),
                                        ![p].resp = ResponseAfterFailure(r, here)]
           ELSE /\ Record(p, TRUE, OriginalGroup(r), SuccessIndex(r))
                /\ proc' = [proc EXCEPT ![p] = IF response.json THEN DoneProc
                                               ELSE [r EXCEPT !.pc = "json_error"]]
                /\ hist' = [hist EXCEPT ![p].attempts = Append(@, [id |-> id, response |-> response]),
                                        ![p].recs = Append(@, [id |-> id, is_success |-> TRUE]),
                                        ![p].resp = IF response.json THEN here ELSE {}]
        /\ UNCHANGED <<configFile, now, ops>>

\* response.json() raised after the success was recorded: the handler's
\* `except Exception` records a failure for the same candidate and goes on
JsonError(p) ==
    LET r == proc[p]
        id == Candidate(r).id
    IN  /\ r.pc = "json_error"
        /\ Record(p, FALSE, <<>>, 0)
        /\ proc' = [proc EXCEPT ![p] = NextCandidate(r, r.last_error_response)]
        /\ hist' = [hist EXCEPT ![p].recs = Append(@, [id |-> id, is_success |-> FALSE]),
                                ![p].resp = ResponseAfterFailure(r, r.last_error_response)]
        /\ UNCHANGED <<configFile, now, ops>>

\* One streaming attempt up to the head of the upstream's response: a
\* failure before the body is recorded and the loop goes on; otherwise the
\* StreamingResponse is returned and nothing is recorded yet
AttemptStream(p, response) ==
    LET r == proc[p]
        id == Candidate(r).id
        here == {[status |-> response.status, from |-> id]}
        last == IF response = Transport THEN r.last_error_response ELSE here
    IN  /\ r.pc = "attempt"
        /\ r.is_stream
        /\ IF response = Transport \/ StreamHeadFails(response.status)
           THEN /\ Record(p, FALSE, <<>>, 0)
                /\ proc' = [proc EXCEPT ![p] = NextCandidate(r, last)]
                /\ hist' = [hist EXCEPT ![p].attempts = Append(@, [id |-> id, response |-> response]),
                                        ![p].recs = Append(@, [id |-> id, is_success |-> FALSE]),
                                        ![p].resp = ResponseAfterFailure(r, last)]
           ELSE /\ proc' = [proc EXCEPT ![p].pc = "streaming"]
                /\ hist' = [hist EXCEPT ![p].attempts = Append(@, [id |-> id, response |-> response]),
                                        ![p].resp = {[status |-> 200, from |-> id]}]
                /\ UNCHANGED <<statsFile, recorded, served>>
        /\ UNCHANGED <<configFile, now, ops>>

\* Mutant: a stream broken by the upstream fails over to the next candidate
AfterStreamFailover(r, stream_end) ==
    IF stream_end = "error" THEN NextCandidate(r, r.last_error_response) ELSE DoneProc

\* The handler once the committed stream has ended, however it ended: the
\* StreamingResponse was returned, no candidate is left to try
AfterStream(r, stream_end) == DoneProc

\* final_stream_generator: the committed stream ends cleanly (the success is
\* recorded), or breaks on an upstream error or a client disconnect (the
\* exception is logged and raised again)
StreamEnds(p, stream_end) ==
    LET r == proc[p]
        id == Candidate(r).id
    IN  /\ r.pc = "streaming"
        /\ IF stream_end = "clean"
           THEN /\ Record(p, TRUE, OriginalGroup(r), SuccessIndex(r))
                /\ hist' = [hist EXCEPT ![p].recs = Append(@, [id |-> id, is_success |-> TRUE]),
                                        ![p].stream_end = stream_end]
           ELSE /\ hist' = [hist EXCEPT ![p].stream_end = stream_end]
                /\ UNCHANGED <<statsFile, recorded, served>>
        /\ proc' = [proc EXCEPT ![p] = AfterStream(r, stream_end)]
        /\ UNCHANGED <<configFile, now, ops>>

StreamEndings == {"clean", "error", "disconnect"}

\* The response has gone to the client: the handler's frame is dropped
Close(p) ==
    /\ proc[p].pc = "done"
    /\ proc' = [proc EXCEPT ![p] = IdleProc]
    /\ hist' = [hist EXCEPT ![p] = NoHist]
    /\ UNCHANGED <<configFile, statsFile, now, ops, recorded, served>>

\* The clock advances
Tick ==
    /\ now < MaxTime
    /\ now' = now + 1
    /\ UNCHANGED <<configFile, statsFile, proc, hist, ops, recorded, served>>

\* A client starts an operation while the run's budget lasts
StartProxy(p, is_stream, requested_model) ==
    /\ ops < MaxOps
    /\ BeginProxy(p, is_stream, requested_model)

StartStats(p) ==
    /\ ops < MaxOps
    /\ BeginStats(p)

\* The answers of an upstream that is up (200, JSON body) or down (500)
PlainResponses == {[status |-> 200, json |-> TRUE], [status |-> 500, json |-> TRUE]}

\* Concurrent clients: buffered proxy requests for a configured scheme and
\* stats reads in any interleaving, every upstream answering 200 or 500
Next ==
    \/ \E p \in Procs, m \in ConfiguredModels : StartProxy(p, FALSE, m)
    \/ \E p \in Procs : StartStats(p)
    \/ \E p \in Procs : GetStatsRead(p)
    \/ \E p \in Procs : GetStatsSchemes(p)
    \/ \E p \in Procs : GetStatsWrite(p)
    \/ \E p \in Procs, response \in PlainResponses : AttemptBuffered(p, response)
    \/ \E p \in Procs : Close(p)
    \/ Tick

Spec == Init /\ [][Next]_vars

\* ------------------------------------------- requests one after another
\* A config with a priority group of three peers
PeerConfig ==
    [s \in {"alpha", "beta"} |->
        IF s = "alpha"
        THEN << Upstream("A", 1, {}, {}), Upstream("B", 1, {}, {}), Upstream("C", 1, {}, {}) >>
        ELSE << Upstream("D", 1, {}, {}) >>]

MaxSeqOps == 4        \* operations started in a run of SpecSeq

\* A healthy upstream answers 200 with a JSON body
HealthyResponses == {[status |-> 200, json |-> TRUE]}

AllIdle == \A p \in Procs : proc[p].pc = "idle"

\* The client that sends its requests one after another
SeqClient == CHOOSE p \in Procs : TRUE

InitSeq ==
    /\ configFile \in {InitialConfig, PeerConfig}
    /\ statsFile = get_default_stats(0)
    /\ now = 0
    /\ proc = [p \in Procs |-> IdleProc]
    /\ hist = [p \in Procs |-> NoHist]
    /\ ops = 0
    /\ recorded = [id \in Ids |-> [success |-> 0, fail |-> 0]]
    /\ served = <<>>

\* An operation starts only when no other is in flight
SeqStartProxy(p, is_stream, requested_model) ==
    /\ p = SeqClient
    /\ AllIdle
    /\ ops < MaxSeqOps
    /\ BeginProxy(p, is_stream, requested_model)

SeqStartStats(p) ==
    /\ p = SeqClient
    /\ AllIdle
    /\ ops < MaxSeqOps
    /\ BeginStats(p)

NextSeq ==
    \/ \E p \in Procs, is_stream \in BOOLEAN, m \in RequestedModels : SeqStartProxy(p, is_stream, m)
    \/ \E p \in Procs : SeqStartStats(p)
    \/ \E p \in Procs : GetStatsRead(p)
    \/ \E p \in Procs : GetStatsSchemes(p)
    \/ \E p \in Procs : GetStatsWrite(p)
    \/ \E p \in Procs, response \in HealthyResponses : AttemptBuffered(p, response)
    \/ \E p \in Procs, response \in HealthyResponses : AttemptStream(p, response)
    \/ \E p \in Procs, e \in StreamEndings : StreamEnds(p, e)
    \/ \E p \in Procs : Close(p)
    \/ Tick

SpecSeq == InitSeq /\ [][NextSeq]_vars

\* ---------------------------------- requests one after another, any answer
SerialStartProxy(p, is_stream, requested_model) ==
    /\ p = SeqClient
    /\ AllIdle
    /\ ops < MaxOps
    /\ BeginProxy(p, is_stream, requested_model)

SerialStartStats(p) ==
    /\ p = SeqClient
    /\ AllIdle
    /\ ops < MaxOps
    /\ BeginStats(p)

NextSerial ==
    \/ \E p \in Procs, is_stream \in BOOLEAN, m \in ConfiguredModels : SerialStartProxy(p, is_stream, m)
    \/ \E p \in Procs : SerialStartStats(p)
    \/ \E p \in Procs : GetStatsRead(p)
    \/ \E p \in Procs : GetStatsSchemes(p)
    \/ \E p \in Procs : GetStatsWrite(p)
    \/ \E p \in Procs, response \in Responses : AttemptBuffered(p, response)
    \/ \E p \in Procs : JsonError(p)
    \/ \E p \in Procs, response \in Responses : AttemptStream(p, response)
    \/ \E p \in Procs, e \in StreamEndings : StreamEnds(p, e)
    \/ \E p \in Procs : Close(p)
    \/ Tick

SpecSerial == Init /\ [][NextSerial]_vars

\* ------------------------------------------------------------- admin API
\* config_in of POST/PUT /admin/config (ApiConfigBase): the fields it carries
ConfigIn(priority, threshold, duration) ==
    [priority |-> priority,
     consecutive_failure_threshold |-> threshold,
     disable_duration_seconds |-> duration]

\* ApiConfig(id=str(uuid.uuid4()), **config_data)
NewConfig(id, config_in) ==
    Upstream(id, config_in.priority, config_in.consecutive_failure_threshold, config_in.disable_duration_seconds)

\* config.copy(update=config_in.dict(exclude_unset=True)): the fields the
\* request carries replace those of the stored config
CopyUpdate(config, config_in) ==
    [f \in DOMAIN config |-> IF f \in DOMAIN config_in THEN config_in[f] ELSE config[f]]

\* The scheme whose list holds config_id
SchemeHolding(schemes, config_id) ==
    CHOOSE s \in DOMAIN schemes : \E i \in 1..Len(schemes[s]) : schemes[s][i].id = config_id

\* create_config: the new config appended to its scheme, created when missing
CreateIn(schemes, scheme_name, new_config) ==
    Put(schemes, scheme_name, Append(Get(schemes, scheme_name, <<>>), new_config))

\* update_config: schemes[scheme_name][i] = updated_config
UpdateIn(schemes, config_id, config_in) ==
    LET s == SchemeHolding(schemes, config_id)
        i == CHOOSE k \in 1..Len(schemes[s]) :
                /\ schemes[s][k].id = config_id
                /\ \A j \in 1..(k - 1) : schemes[s][j].id # config_id
    IN  [schemes EXCEPT ![s][i] = CopyUpdate(@, config_in)]

\* delete_config: the config filtered out of its scheme, the scheme dropped
\* when it has become empty
DeleteIn(schemes, config_id) ==
    LET s == SchemeHolding(schemes, config_id)
        rest == SelectSeq(schemes[s], LAMBDA c : c.id # config_id)
    IN  IF rest = <<>>
        THEN [x \in (DOMAIN schemes) \ {s} |-> schemes[x]]
        ELSE [schemes EXCEPT ![s] = rest]

\* POST /admin/config up to save_all_schemes
BeginCreate(p, scheme_name, config_in) ==
    /\ proc[p].pc = "idle"
    /\ ops' = ops + 1
    /\ LET schemes == get_all_schemes(configFile)
           new_config == NewConfig(NewId(ops + 1), config_in)
       IN  /\ proc' = [proc EXCEPT ![p] = [IdleProc EXCEPT !.pc = "save", !.kind = "create",
                                                            !.schemes = {CreateIn(schemes, scheme_name, new_config)}]]
           /\ hist' = [hist EXCEPT ![p] = [Started("create", FALSE) EXCEPT
                           !.mutation = {[op |-> "create", scheme_name |-> scheme_name, config |-> new_config]}]]
    /\ UNCHANGED <<configFile, statsFile, now, recorded, served>>

\* PUT /admin/config/{config_id} up to save_all_schemes, or its 404
BeginUpdate(p, config_id, config_in) ==
    /\ proc[p].pc = "idle"
    /\ ops' = ops + 1
    /\ LET schemes == get_all_schemes(configFile)
           h == [Started("update", FALSE) EXCEPT
                    !.mutation = {[op |-> "update", config_id |-> config_id, config_in |-> config_in]}]
       IN  IF config_id \in ConfigIds(schemes)
           THEN /\ proc' = [proc EXCEPT ![p] = [IdleProc EXCEPT !.pc = "save", !.kind = "update",
                                                                 !.schemes = {UpdateIn(schemes, config_id, config_in)}]]
                /\ hist' = [hist EXCEPT ![p] = h]
           ELSE /\ proc' = [proc EXCEPT ![p] = DoneProc]
                /\ hist' = [hist EXCEPT ![p] = [h EXCEPT !.resp = {[status |-> 404, from |-> "proxy"]}]]
    /\ UNCHANGED <<configFile, statsFile, now, recorded, served>>

\* DELETE /admin/config/{config_id} up to save_all_schemes, or its 404
BeginDelete(p, config_id) ==
    /\ proc[p].pc = "idle"
    /\ ops' = ops + 1
    /\ LET schemes == get_all_schemes(configFile)
           h == [Started("delete", FALSE) EXCEPT
                    !.mutation = {[op |-> "delete", config_id |-> config_id]}]
       IN  IF config_id \in ConfigIds(schemes)
           THEN /\ proc' = [proc EXCEPT ![p] = [IdleProc EXCEPT !.pc = "save", !.kind = "delete",
                                                                 !.schemes = {DeleteIn(schemes, config_id)}]]
                /\ hist' = [hist EXCEPT ![p] = h]
           ELSE /\ proc' = [proc EXCEPT ![p] = DoneProc]
                /\ hist' = [hist EXCEPT ![p] = [h EXCEPT !.resp = {[status |-> 404, from |-> "proxy"]}]]
    /\ UNCHANGED <<configFile, statsFile, now, recorded, served>>

\* The status of a completed admin mutation: 204 for delete, else 200
AdminStatus(kind) == IF kind = "delete" THEN 204 ELSE 200

\* save_all_schemes(schemes): write_json_file under the lock, then the response
SaveAllSchemes(p) ==
    /\ proc[p].pc = "save"
    /\ \E schemes \in proc[p].schemes : configFile' = schemes
    /\ proc' = [proc EXCEPT ![p] = DoneProc]
    /\ hist' = [hist EXCEPT ![p].resp = {[status |-> AdminStatus(proc[p].kind), from |-> "proxy"]}]
    /\ UNCHANGED <<statsFile, now, ops, recorded, served>>

\* ------------------------- admin mutations and requests, one after another
\* config.json of a deployment with a group of two peers and a scheme of one
\* armed upstream whose disable window is longer than a tick
AdminConfig ==
    [s \in {"alpha", "beta"} |->
        IF s = "alpha"
        THEN << Upstream("A", 1, {}, {}), Upstream("B", 1, {}, {}) >>
        ELSE << Upstream("C", 1, {1}, {2}) >>]

\* What the admin client sends
CreateInputs == {ConfigIn(1, {}, {})}
UpdateInputs == {[priority |-> 2]}
AdminTargets == {"B", "C", "gone"}
AdminModels == {"beta", "zeta", "None"}

\* A fresh install starts with no config file (read_json_file creates {});
\* a deployment starts with its config
InitAdmin ==
    /\ configFile \in {EmptyMap, AdminConfig}
    /\ statsFile = get_default_stats(0)
    /\ now = 0
    /\ proc = [p \in Procs |-> IdleProc]
    /\ hist = [p \in Procs |-> NoHist]
    /\ ops = 0
    /\ recorded = [id \in Ids |-> [success |-> 0, fail |-> 0]]
    /\ served = <<>>

AdminGuard(p) ==
    /\ p = SeqClient
    /\ AllIdle
    /\ ops < MaxAdminOps

NextAdmin ==
    \/ \E p \in Procs, m \in AdminModels : AdminGuard(p) /\ BeginProxy(p, FALSE, m)
    \/ \E p \in Procs : AdminGuard(p) /\ BeginStats(p)
    \/ \E p \in Procs, s \in {"alpha", "beta"}, c \in CreateInputs : AdminGuard(p) /\ BeginCreate(p, s, c)
    \/ \E p \in Procs, id \in AdminTargets, c \in UpdateInputs : AdminGuard(p) /\ BeginUpdate(p, id, c)
    \/ \E p \in Procs, id \in AdminTargets : AdminGuard(p) /\ BeginDelete(p, id)
    \/ \E p \in Procs : SaveAllSchemes(p)
    \/ \E p \in Procs : GetStatsRead(p)
    \/ \E p \in Procs : GetStatsSchemes(p)
    \/ \E p \in Procs : GetStatsWrite(p)
    \/ \E p \in Procs, response \in PlainResponses : AttemptBuffered(p, response)
    \/ \E p \in Procs : Close(p)
    \/ Tick

SpecAdmin == InitAdmin /\ [][NextAdmin]_vars

\* ------------------------------------------- concurrent admin mutations
InitAdminRace ==
    /\ configFile = AdminConfig
    /\ statsFile = get_default_stats(0)
    /\ now = 0
    /\ proc = [p \in Procs |-> IdleProc]
    /\ hist = [p \in Procs |-> NoHist]
    /\ ops = 0
    /\ recorded = [id \in Ids |-> [success |-> 0, fail |-> 0]]
    /\ served = <<>>

\* Two admin clients, their mutations in any interleaving
NextAdminRace ==
    \/ \E p \in Procs, s \in {"alpha", "beta"}, c \in CreateInputs : ops < MaxOps /\ BeginCreate(p, s, c)
    \/ \E p \in Procs, id \in AdminTargets, c \in UpdateInputs : ops < MaxOps /\ BeginUpdate(p, id, c)
    \/ \E p \in Procs, id \in AdminTargets : ops < MaxOps /\ BeginDelete(p, id)
    \/ \E p \in Procs : SaveAllSchemes(p)
    \/ \E p \in Procs : Close(p)

SpecAdminRace == InitAdminRace /\ [][NextAdminRace]_vars

\* ------------------------- concurrent requests, stats reads and deletions
\* The scheme requested and the upstream deleted: the one upstream of beta
PruneModels == {"beta"}
PruneTargets == {"C"}

\* Two clients: proxy requests, stats reads and the deletion of an upstream
\* in any interleaving, over the day change
NextPrune ==
    \/ \E p \in Procs, m \in PruneModels : ops < MaxAdminOps /\ BeginProxy(p, FALSE, m)
    \/ \E p \in Procs : ops < MaxAdminOps /\ BeginStats(p)
    \/ \E p \in Procs, id \in PruneTargets : ops < MaxAdminOps /\ BeginDelete(p, id)
    \/ \E p \in Procs : SaveAllSchemes(p)
    \/ \E p \in Procs : GetStatsRead(p)
    \/ \E p \in Procs : GetStatsSchemes(p)
    \/ \E p \in Procs : GetStatsWrite(p)
    \/ \E p \in Procs, response \in PlainResponses : AttemptBuffered(p, response)
    \/ \E p \in Procs : Close(p)
    \/ Tick

SpecPrune == InitAdminRace /\ [][NextPrune]_vars

\* ------------------------------------------- an upstream with threshold 2
\* config.json with an upstream that trips on its second consecutive failure
\* for one tick, and a fallback of lower priority without breaker
BreakerConfig ==
    [s \in {"alpha"} |-> << Upstream("A", 1, {2}, {1}), Upstream("B", 2, {}, {}) >>]

InitBreaker ==
    /\ configFile = BreakerConfig
    /\ statsFile = get_default_stats(0)
    /\ now = 0
    /\ proc = [p \in Procs |-> IdleProc]
    /\ hist = [p \in Procs |-> NoHist]
    /\ ops = 0
    /\ recorded = [id \in Ids |-> [success |-> 0, fail |-> 0]]
    /\ served = <<>>

\* Two clients: buffered requests and stats reads in any interleaving, the
\* upstreams answering 200 or 500, while the disable window opens and expires
NextBreaker ==
    \/ \E p \in Procs : ops < MaxAdminOps /\ BeginProxy(p, FALSE, "alpha")
    \/ \E p \in Procs : ops < MaxAdminOps /\ BeginStats(p)
    \/ \E p \in Procs : GetStatsRead(p)
    \/ \E p \in Procs : GetStatsSchemes(p)
    \/ \E p \in Procs : GetStatsWrite(p)
    \/ \E p \in Procs, response \in PlainResponses : AttemptBuffered(p, response)
    \/ \E p \in Procs : Close(p)
    \/ Tick

SpecBreaker == InitBreaker /\ [][NextBreaker]_vars

\* ------------------------------------------------- file_lock made explicit
\* The step of client p's handler: its position in the handler's code
Stage(p) == <<proc[p].pc, proc[p].pos>>

\* Where client p is within its current step: "none" at its start,
\* "calling" while the upstream call is out, "returned" once it is back,
\* "waiting" at `async with file_lock`, "held" inside the block, "nested"
\* when the block itself waits for file_lock
Phase(p) == IF proc[p].step.at = Stage(p) THEN proc[p].step.phase ELSE "none"

\* file_lock = asyncio.Lock(): the clients inside an `async with file_lock`
file_lock == {p \in Procs : Phase(p) \in {"held", "nested"}}

\* Mutant: update_stats_and_state reads stats.json through read_json_file
AcquiresInsideRecord(pc) == pc \in {"attempt", "streaming"}

\* Whether the `async with file_lock` block entered at pc calls a function
\* that takes file_lock: the blocks of read_json_file, write_json_file and
\* update_stats_and_state do their file I/O with aiofiles directly
AcquiresInside(pc) == FALSE

\* The upstream's answer fails the attempt before a body is committed
FailsAttempt(r, response) ==
    IF r.is_stream THEN response = Transport \/ StreamHeadFails(response.status)
    ELSE FALSE

\* The next statement of p's handler is an `async with file_lock`:
\* read_json_file or write_json_file of get_stats and save_all_schemes, or
\* update_stats_and_state for the outcome of the attempt
NeedsLock(p) ==
    LET r == proc[p]
    IN  \/ r.pc \in {"get_stats", "get_stats_schemes", "get_stats_write", "save"}
           /\ Phase(p) = "none"
        \/ r.pc = "attempt" /\ Phase(p) = "returned"
           /\ \A response \in r.step.response : ~r.is_stream \/ FailsAttempt(r, response)
        \/ r.pc = "streaming" /\ Phase(p) = "returned" /\ r.step.stream_end = "clean"

\* `async with file_lock`: the client queues for the lock
Await(p) ==
    /\ IF Phase(p) = "held"
       THEN /\ AcquiresInside(proc[p].pc)
            /\ proc' = [proc EXCEPT ![p].step.phase = "nested"]
       ELSE /\ NeedsLock(p)
            /\ proc' = [proc EXCEPT ![p].step = [@ EXCEPT !.at = Stage(p), !.phase = "waiting"]]
    /\ UNCHANGED <<configFile, statsFile, now, hist, ops, recorded, served>>

\* The free lock goes to a client that waits for it
Grant(p) ==
    /\ Phase(p) = "waiting"
    /\ file_lock = {}
    /\ proc' = [proc EXCEPT ![p].step.phase = "held"]
    /\ UNCHANGED <<configFile, statsFile, now, hist, ops, recorded, served>>

\* Client p is inside the block and the block runs to its end
InBlock(p) == Phase(p) = "held" /\ ~AcquiresInside(proc[p].pc)

\* httpx_client.post / httpx_client.stream: the call to the candidate goes out
SendAttempt(p) ==
    /\ proc[p].pc = "attempt"
    /\ Phase(p) = "none"
    /\ proc' = [proc EXCEPT ![p].step = [NoStep EXCEPT !.at = Stage(p), !.phase = "calling"]]
    /\ UNCHANGED <<configFile, statsFile, now, hist, ops, recorded, served>>

\* The call returns with the upstream's answer, or fails or times out
UpstreamReturns(p, response) ==
    /\ Phase(p) = "calling"
    /\ proc' = [proc EXCEPT ![p].step = [@ EXCEPT !.phase = "returned", !.response = {response}]]
    /\ UNCHANGED <<configFile, statsFile, now, hist, ops, recorded, served>>

\* The outcome of a buffered attempt, or of a streaming attempt that failed
\* at its head, is recorded inside update_stats_and_state
RecordAttempt(p) ==
    /\ InBlock(p)
    /\ proc[p].pc = "attempt"
    /\ \E response \in proc[p].step.response :
           IF proc[p].is_stream THEN AttemptStream(p, response)
           ELSE AttemptBuffered(p, response)

\* A streaming attempt whose head is good: StreamingResponse is returned
CommitStream(p) ==
    /\ proc[p].pc = "attempt"
    /\ proc[p].is_stream
    /\ Phase(p) = "returned"
    /\ \E response \in proc[p].step.response :
           /\ ~FailsAttempt(proc[p], response)
           /\ AttemptStream(p, response)

\* The committed stream comes to its end, one way or another
StreamOver(p, stream_end) ==
    /\ proc[p].pc = "streaming"
    /\ Phase(p) = "none"
    /\ proc' = [proc EXCEPT ![p].step = [NoStep EXCEPT !.at = Stage(p), !.phase = "returned",
                                                       !.stream_end = stream_end]]
    /\ UNCHANGED <<configFile, statsFile, now, hist, ops, recorded, served>>

\* final_stream_generator after the stream: the success of a clean end is
\* recorded inside update_stats_and_state, a broken stream is raised again
FinishStream(p) ==
    /\ proc[p].pc = "streaming"
    /\ IF proc[p].step.stream_end = "clean" THEN InBlock(p) ELSE Phase(p) = "returned"
    /\ StreamEnds(p, proc[p].step.stream_end)

\* The steps of client p's handler that the event loop runs when they are ready
HandlerStep(p) ==
    \/ Await(p)
    \/ SendAttempt(p)
    \/ InBlock(p) /\ GetStatsRead(p)
    \/ InBlock(p) /\ GetStatsSchemes(p)
    \/ InBlock(p) /\ GetStatsWrite(p)
    \/ InBlock(p) /\ SaveAllSchemes(p)
    \/ RecordAttempt(p)
    \/ CommitStream(p)
    \/ FinishStream(p)

\* What an upstream call can come back with: 200 with a JSON body, 500, or
\* no answer (error, 90 s timeout)
LockResponses == PlainResponses \cup {Transport}

\* config.json with one priority group of two upstreams without breaker
LockConfig ==
    [s \in {"alpha"} |-> << Upstream("A", 1, {}, {}), Upstream("B", 1, {}, {}) >>]

\* The service starts on the day of its stats.json or on the next day
InitLock ==
    /\ configFile = LockConfig
    /\ statsFile = get_default_stats(0)
    /\ now \in {0, TicksPerDay}
    /\ proc = [p \in Procs |-> IdleProc]
    /\ hist = [p \in Procs |-> NoHist]
    /\ ops = 0
    /\ recorded = [id \in Ids |-> [success |-> 0, fail |-> 0]]
    /\ served = <<>>

\* Two clients, each with one operation that runs against the other's;
\* every critical section is entered through file_lock.  The first read of
\* a handler, get_all_schemes(), is taken when the lock is free.
NextLock ==
    \/ \E p \in Procs, is_stream \in BOOLEAN : file_lock = {} /\ StartProxy(p, is_stream, "alpha")
    \/ \E p \in Procs : StartStats(p)
    \/ \E p \in Procs : file_lock = {} /\ ops < MaxOps /\ BeginDelete(p, "B")
    \/ \E p \in Procs : Await(p)
    \/ \E p \in Procs : Grant(p)
    \/ \E p \in Procs : SendAttempt(p)
    \/ \E p \in Procs, response \in LockResponses : UpstreamReturns(p, response)
    \/ \E p \in Procs : InBlock(p) /\ GetStatsRead(p)
    \/ \E p \in Procs : InBlock(p) /\ GetStatsSchemes(p)
    \/ \E p \in Procs : InBlock(p) /\ GetStatsWrite(p)
    \/ \E p \in Procs : InBlock(p) /\ SaveAllSchemes(p)
    \/ \E p \in Procs : RecordAttempt(p)
    \/ \E p \in Procs : CommitStream(p)
    \/ \E p \in Procs, e \in StreamEndings : StreamOver(p, e)
    \/ \E p \in Procs : FinishStream(p)

\* The event loop runs every handler that is ready, every upstream call
\* returns or times out, and asyncio.Lock wakes its waiters in turn.  A
\* committed stream may go on for ever.
FairLock ==
    \A p \in Procs :
        /\ WF_vars(HandlerStep(p))
        /\ WF_vars(\E response \in LockResponses : UpstreamReturns(p, response))
        /\ SF_vars(Grant(p))

SpecLock == InitLock /\ [][NextLock]_vars /\ FairLock

\* ------------------------------------------- a priority group of four peers
\* config.json with one group of four, two of them armed to trip on their
\* first failure
QuadConfig ==
    [s \in {"alpha"} |->
        << Upstream("A", 1, {1}, {1}), Upstream("B", 1, {1}, {1}),
           Upstream("C", 1, {}, {}), Upstream("D", 1, {}, {}) >>]

InitQuad ==
    /\ configFile = QuadConfig
    /\ statsFile = get_default_stats(0)
    /\ now = 0
    /\ proc = [p \in Procs |-> IdleProc]
    /\ hist = [p \in Procs |-> NoHist]
    /\ ops = 0
    /\ recorded = [id \in Ids |-> [success |-> 0, fail |-> 0]]
    /\ served = <<>>

\* Requests one after another, every upstream answering 200 or 500
NextQuad ==
    \/ \E p \in Procs, m \in {"alpha", "None"} : SerialStartProxy(p, FALSE, m)
    \/ \E p \in Procs : GetStatsRead(p)
    \/ \E p \in Procs : GetStatsSchemes(p)
    \/ \E p \in Procs : GetStatsWrite(p)
    \/ \E p \in Procs, response \in PlainResponses : AttemptBuffered(p, response)
    \/ \E p \in Procs : Close(p)
    \/ Tick

SpecQuad == InitQuad /\ [][NextQuad]_vars

\* ----------------------------------------------------------------- claims
IdsOf(seq) == {seq[i].id : i \in 1..Len(seq)}

\* The operation of client p has finished
Finished(p) == proc[p].pc = "done"

\* The upstream answered the attempt with an HTTP status below 400
AnsweredBelow400(attempt) ==
    attempt.response # Transport /\ attempt.response.status < 400

\* In this step client p completed an update_stats_and_state call
RecordedBy(p, is_success) ==
    /\ Len(hist'[p].recs) = Len(hist[p].recs) + 1
    /\ hist'[p].recs[Len(hist'[p].recs)].is_success = is_success

\* The stored cursor of a scheme and priority key, when there is one
CursorOf(rr, scheme, key) ==
    IF scheme \in DOMAIN rr /\ key \in DOMAIN rr[scheme] THEN {rr[scheme][key]} ELSE {}

\* The configured upstreams of a scheme with a priority, in the order the
\* scheduler sees them, and the priorities configured
ConfiguredGroup(scheme, priority) ==
    PriorityGroup(get_all_schemes(configFile)[scheme], priority)

ConfiguredPriorities ==
    UNION {{configFile[s][i].priority : i \in 1..Len(configFile[s])} : s \in DOMAIN configFile}

\* The scheme an upstream id is configured in
SchemeOfId(id) == CHOOSE s \in DOMAIN configFile : id \in IdsOf(configFile[s])

\* The successes recorded so far for a scheme and priority
ServedFor(scheme, priority) ==
    SelectSeq(served, LAMBDA e : e.scheme = scheme /\ e.priority = priority)

RECURSIVE SumOver(_, _)
SumOver(f, S) ==
    IF S = {} THEN 0
    ELSE LET x == CHOOSE y \in S : TRUE IN f[x] + SumOver(f, S \ {x})

\* C1: a streaming request makes no attempt after the first attempt that an
\* upstream answered with a status below 400, however the stream ends.
C1_NoAttemptAfterCommit ==
    \A p \in Procs :
        hist[p].is_stream =>
            \A k \in 1..Len(hist[p].attempts) :
                AnsweredBelow400(hist[p].attempts[k]) => Len(hist[p].attempts) = k

\* A committed stream broke while a later candidate was left in the queue
C1_Witness ==
    \E p \in Procs :
        /\ Finished(p)
        /\ hist[p].is_stream
        /\ hist[p].stream_end \in {"error", "disconnect"}
        /\ Len(hist[p].attempts) < Len(hist[p].queue)

\* C2: a committed stream records a success only on a clean end, and exactly
\* one failure against its upstream when it breaks mid-flight.
C2_BrokenStreamRecordsFailure ==
    \A p \in Procs :
        hist[p].stream_end # "none" =>
            LET id == hist[p].attempts[Len(hist[p].attempts)].id
                outcomes == {i \in 1..Len(hist[p].recs) : hist[p].recs[i].id = id}
            IN  IF hist[p].stream_end = "clean"
                THEN \A i \in outcomes : hist[p].recs[i].is_success
                ELSE /\ Cardinality(outcomes) = 1
                     /\ \A i \in outcomes : ~hist[p].recs[i].is_success

\* C3: a finished non-streaming request attempted exactly the queue prefix
\* up to the first candidate answering below 400, recorded one failure for
\* each earlier candidate and one success for that candidate, and answered
\* the client with that candidate's status and body.
C3_BufferedPrefix ==
    \A p \in Procs :
        LET h == hist[p]
            answered == {k \in 1..Len(h.attempts) : AnsweredBelow400(h.attempts[k])}
        IN  (Finished(p) /\ h.kind = "proxy" /\ ~h.is_stream /\ answered # {}) =>
                LET k == CHOOSE x \in answered : \A y \in answered : x <= y
                IN  /\ [i \in 1..Len(h.attempts) |-> h.attempts[i].id] = SubSeq(h.queue, 1, k)
                    /\ h.recs = [i \in 1..k |-> [id |-> h.queue[i], is_success |-> (i = k)]]
                    /\ h.resp = {[status |-> h.attempts[k].response.status, from |-> h.queue[k]]}

\* C4: a recorded failure adds one to consecutive_fails, and sets
\* disabled_until to now + duration, after now, exactly when the upstream has
\* both breaker fields and the new count has reached the threshold; otherwise
\* disabled_until is left as it was.
C4_FailureTripsAtThreshold ==
    [][\A p \in Procs :
        RecordedBy(p, FALSE) =>
            LET config == Candidate(proc[p])
                before == Get(statsFile.by_config_id, config.id, NewRow)
                after == statsFile'.by_config_id[config.id]
                reached == /\ config.consecutive_failure_threshold # {}
                           /\ config.disable_duration_seconds # {}
                           /\ \A th \in config.consecutive_failure_threshold :
                                  after.consecutive_fails >= th
            IN  /\ after.consecutive_fails = before.consecutive_fails + 1
                /\ IF reached
                   THEN \E d \in config.disable_duration_seconds :
                            /\ after.disabled_until = {now + d}
                            /\ now + d > now
                   ELSE after.disabled_until = before.disabled_until]_vars

\* A, with threshold 2, was tripped by its second consecutive failure
C4_Witness ==
    /\ "A" \in DOMAIN statsFile.by_config_id
    /\ statsFile.by_config_id["A"].consecutive_fails = 2
    /\ statsFile.by_config_id["A"].disabled_until # {}
    /\ \E p \in Procs : \E i \in 1..Len(hist[p].recs) :
           hist[p].recs[i] = [id |-> "A", is_success |-> FALSE]

\* C5: right after a recorded success the upstream's consecutive_fails is 0
\* and its disabled_until is absent.
C5_SuccessClearsBreaker ==
    [][\A p \in Procs :
        RecordedBy(p, TRUE) =>
            LET after == statsFile'.by_config_id[Candidate(proc[p]).id]
            IN  after.consecutive_fails = 0 /\ after.disabled_until = {}]_vars

\* B was tripped by one client's failure after another client had queued it,
\* and that client's success on B, within the window, cleared the breaker
C5_Witness ==
    /\ now = 0
    /\ "B" \in DOMAIN statsFile.by_config_id
    /\ statsFile.by_config_id["B"].fail >= 1
    /\ statsFile.by_config_id["B"].consecutive_fails = 0
    /\ statsFile.by_config_id["B"].disabled_until = {}
    /\ \E p \in Procs, q \in Procs :
           /\ \E i \in 1..Len(hist[p].recs) : hist[p].recs[i] = [id |-> "B", is_success |-> TRUE]
           /\ \E i \in 1..Len(hist[q].recs) : hist[q].recs[i] = [id |-> "B", is_success |-> FALSE]

\* C6: an upstream whose disabled_until is after the clock value in what the
\* request read is not in the request's queue, is not attempted and gets no
\* outcome from the request; every other upstream of the scheme is queued.
C6_TrippedNeverAttempted ==
    \A p \in Procs :
        \A id \in DOMAIN hist[p].snapshot :
            IF \E d \in hist[p].snapshot[id] : d > hist[p].now_time
            THEN /\ \A i \in 1..Len(hist[p].queue) : hist[p].queue[i] # id
                 /\ id \notin IdsOf(hist[p].attempts)
                 /\ id \notin IdsOf(hist[p].recs)
            ELSE \E i \in 1..Len(hist[p].queue) : hist[p].queue[i] = id

\* A finished request made an attempt while a peer was tripped in what it read
C6_Witness ==
    \E p \in Procs :
        /\ Finished(p)
        /\ hist[p].attempts # <<>>
        /\ \E id \in DOMAIN hist[p].snapshot :
               \E d \in hist[p].snapshot[id] : d > hist[p].now_time

\* C7: with healthy upstreams and requests one after another, the upstreams
\* served in a priority group follow the group cyclically from the stored
\* cursor, and two consecutive successes from cursor k leave (k + 2) mod n.
C7_RoundRobinInTurn ==
    \A s \in DOMAIN configFile : \A priority \in ConfiguredPriorities :
        LET group == ConfiguredGroup(s, priority)
            n == Len(group)
            L == ServedFor(s, priority)
        IN  /\ \A j \in 1..Len(L) :
                   L[j].read < n /\ L[j].id = group[L[j].read + 1].id
            /\ \A j \in 1..(Len(L) - 1) : L[j + 1].read = (L[j].read + 1) % n
            /\ Len(L) >= 2 =>
                   CursorOf(statsFile.round_robin_state, s, PriorityKey(priority))
                       = {(L[Len(L) - 1].read + 2) % n}

\* Four requests on the two peers A and B were served A, B, A, B, cursor 0
C7_Witness ==
    /\ configFile = InitialConfig
    /\ [i \in 1..Len(served) |-> served[i].id] = <<"A", "B", "A", "B">>
    /\ CursorOf(statsFile.round_robin_state, "alpha", PriorityKey(1)) = {0}

\* C8: a recorded failure leaves round_robin_state as it was; a recorded
\* success changes no cursor but the one of the upstream's scheme and priority.
C8_CursorFrame ==
    [][\A p \in Procs :
        /\ RecordedBy(p, FALSE) =>
               statsFile'.round_robin_state = statsFile.round_robin_state
        /\ RecordedBy(p, TRUE) =>
               LET config == Candidate(proc[p])
               IN  \A s \in RequestedModels, priority \in ConfiguredPriorities :
                       (s # SchemeOfId(config.id) \/ priority # config.priority) =>
                           CursorOf(statsFile'.round_robin_state, s, PriorityKey(priority))
                               = CursorOf(statsFile.round_robin_state, s, PriorityKey(priority))]_vars

\* Both schemes hold a cursor, one of them advanced, and a failure was recorded
C8_Witness ==
    /\ CursorOf(statsFile.round_robin_state, "alpha", PriorityKey(1)) = {1}
    /\ CursorOf(statsFile.round_robin_state, "beta", PriorityKey(2)) # {}
    /\ \E p \in Procs : \E i \in 1..Len(hist[p].recs) : ~hist[p].recs[i].is_success

\* C9: after m recorded successes on a priority group of size n, from cursor
\* 0, the stored cursor is m mod n: no success re-uses or skips a position.
C9_CursorCountsSuccesses ==
    \A s \in DOMAIN configFile : \A priority \in ConfiguredPriorities :
        LET n == Len(ConfiguredGroup(s, priority))
            m == Len(ServedFor(s, priority))
            cursor == CursorOf(statsFile.round_robin_state, s, PriorityKey(priority))
        IN  n > 0 => (IF m = 0 THEN cursor = {} ELSE cursor = {m % n})

\* C10: once every operation has finished, the persisted counters equal the
\* update_stats_and_state calls completed, in total and for each upstream.
C10_NoLostOutcome ==
    (\A p \in Procs : proc[p].pc \in {"idle", "done"}) =>
        /\ statsFile.total.success = SumOver([id \in Ids |-> recorded[id].success], Ids)
        /\ statsFile.total.fail = SumOver([id \in Ids |-> recorded[id].fail], Ids)
        /\ \A id \in Ids :
               /\ Get(statsFile.by_config_id, id, NewRow).success = recorded[id].success
               /\ Get(statsFile.by_config_id, id, NewRow).fail = recorded[id].fail

\* The sum of one lifetime counter over the rows of the state document
RowSum(rows, key) == SumOver([id \in DOMAIN rows |-> rows[id][key]], DOMAIN rows)

\* C11: in every persisted state total.success is the sum of the
\* by_config_id[id].success of all rows, and total.fail the sum of their fail.
C11_TotalIsSumOfRows ==
    /\ statsFile.total.success = RowSum(statsFile.by_config_id, "success")
    /\ statsFile.total.fail = RowSum(statsFile.by_config_id, "fail")

\* The number of upstreams configured in a scheme under a cursor key
GroupSize(scheme, key) ==
    IF scheme \in DOMAIN configFile
    THEN Len(SelectSeq(configFile[scheme], LAMBDA c : PriorityKey(c.priority) = key))
    ELSE 0

\* C12: every stored cursor round_robin_state[scheme][p] is at least 0 and
\* below the number of upstreams now configured in that scheme with priority p.
C12_CursorInRange ==
    \A s \in DOMAIN statsFile.round_robin_state :
        \A key \in DOMAIN statsFile.round_robin_state[s] :
            /\ statsFile.round_robin_state[s][key] >= 0
            /\ statsFile.round_robin_state[s][key] < GroupSize(s, key)

\* One sequence is a rearrangement of the other
IsPermutation(a, b) ==
    /\ Len(a) = Len(b)
    /\ \A x \in IdsOf(a) \cup IdsOf(b) :
           Len(SelectSeq(a, LAMBDA c : c.id = x)) = Len(SelectSeq(b, LAMBDA c : c.id = x))

\* C13: when the stored cursor c of a group is not below the size n of the
\* group being scheduled, the group is queued rotated by c mod n: its head is
\* group[c mod n], and the rotated group is a permutation of the group.
C13_RotatesModulo ==
    \A p \in Procs :
        proc[p].pc = "attempt" =>
            \A i \in 1..Len(proc[p].active_configs) :
                LET priority == proc[p].active_configs[i].priority
                    group == PriorityGroup(proc[p].active_configs, priority)
                    rotated == PriorityGroup(proc[p].attempt_queue, priority)
                    n == Len(group)
                    c == Get(proc[p].round_robin_state_for_scheme, PriorityKey(priority), 0)
                IN  c >= n =>
                        /\ IsPermutation(rotated, group)
                        /\ rotated[1] = group[(c % n) + 1]

\* The attempt failed with no body handed to the client. Streaming: no HTTP
\* response, or a head with status >= 400. Buffered: no HTTP response,
\* raise_for_status() raised (every status outside 2xx), or response.json()
\* raised on the body of a 2xx
FailedPreBody(is_stream, attempt) ==
    \/ attempt.response = Transport
    \/ IF is_stream
       THEN StreamHeadFails(attempt.response.status)
       ELSE RaisesForStatus(attempt.response.status) \/ ~attempt.response.json

\* The request of client p left the loop past the end of its queue: every
\* candidate was attempted and every attempt failed with no body handed over
Exhausted(p) ==
    /\ Finished(p)
    /\ hist[p].kind = "proxy"
    /\ hist[p].queue # <<>>
    /\ [i \in 1..Len(hist[p].attempts) |-> hist[p].attempts[i].id] = hist[p].queue
    /\ \A i \in 1..Len(hist[p].attempts) :
          FailedPreBody(hist[p].is_stream, hist[p].attempts[i])

\* C14: when every candidate failed before any body, the client gets the
\* status and body of the latest candidate that answered with an HTTP error
\* (status >= 400) when there is one, and a synthetic 500 when no candidate
\* produced an HTTP response.
C14_ExhaustionResponse ==
    \A p \in Procs :
        Exhausted(p) =>
            LET h == hist[p]
                answered == {k \in 1..Len(h.attempts) : h.attempts[k].response # Transport}
                errors == {k \in answered : h.attempts[k].response.status >= 400}
            IN  /\ errors # {} =>
                      LET k == CHOOSE x \in errors : \A y \in errors : y <= x
                      IN  h.resp = {[status |-> h.attempts[k].response.status, from |-> h.queue[k]]}
                /\ answered = {} => h.resp = {[status |-> 500, from |-> "proxy"]}

\* The scheme of the request of client p has upstreams and all of them are
\* tripped in what the request read
AllTripped(h) ==
    /\ h.kind = "proxy"
    /\ DOMAIN h.snapshot # {}
    /\ \A id \in DOMAIN h.snapshot : \E d \in h.snapshot[id] : d > h.now_time

Unavailable == {[status |-> 503, from |-> "proxy"]}

\* C15 as stated: a request that finds every upstream of its scheme tripped
\* answers 503, attempts nothing and leaves the whole state document as it was.
C15_NoChangeAtAll ==
    [][\A p \in Procs :
          AllTripped(hist'[p]) =>
              /\ hist'[p].resp = Unavailable
              /\ hist'[p].attempts = <<>>
              /\ statsFile' = statsFile]_vars

\* C15, amended: such a request answers 503, attempts nothing and records no
\* outcome; it writes the state document only when its stats read falls on a
\* new day, and what it writes is the document it read with today's counters
\* reset and the rows of upstreams that are not configured dropped: total,
\* the rows of the configured upstreams and the cursors are as it read them.
C15_UnavailableRecordsNothing ==
    [][\A p \in Procs :
          AllTripped(hist'[p]) =>
              /\ hist'[p].resp = Unavailable
              /\ hist'[p].attempts = <<>>
              /\ hist'[p].recs = <<>>
              /\ recorded' = recorded
              /\ served' = served
              /\ statsFile' # statsFile =>
                     /\ hist[p].resp = {}
                     /\ statsFile.today.date # DateOf(now)
                     /\ statsFile'.today = TodayAfterDateCheck(statsFile, now)
                     /\ statsFile'.total = statsFile.total
                     /\ statsFile'.round_robin_state = statsFile.round_robin_state
                     /\ statsFile'.by_config_id = Restrict(statsFile.by_config_id, ConfigIds(configFile))]_vars

\* A request answered 503 on a new day: its stats read applied the rollover
C15_Witness ==
    \E p \in Procs :
        /\ Finished(p)
        /\ AllTripped(hist[p])
        /\ hist[p].resp = Unavailable
        /\ DateOf(hist[p].now_time) = 1
        /\ statsFile.today.date = 1
        /\ statsFile.total.fail > 0

NoBackends == {[status |-> 500, from |-> "proxy"]}

\* C16: with no scheme in the config a proxy request is answered 500 at once:
\* no upstream is attempted and the state document is left as it was.
C16_EmptyConfig ==
    [][\A p \in Procs :
          (hist[p].kind = "none" /\ hist'[p].kind = "proxy" /\ DOMAIN configFile = {}) =>
              /\ proc'[p].pc = "done"
              /\ hist'[p].resp = NoBackends
              /\ hist'[p].attempts = <<>>
              /\ hist'[p].recs = <<>>
              /\ statsFile' = statsFile
              /\ recorded' = recorded]_vars

\* A proxy request was answered 500 while the config had no scheme
C16_Witness ==
    \E p \in Procs :
        /\ DOMAIN configFile = {}
        /\ Finished(p)
        /\ hist[p].kind = "proxy"
        /\ hist[p].resp = NoBackends
        /\ hist[p].attempts = <<>>

\* In this step the get_stats of client p wrote its rolled-over document
RolloverWrittenBy(p) ==
    proc[p].pc = "get_stats_write" /\ proc'[p].pc # "get_stats_write"

\* In this step update_stats_and_state ran with a stored date that is not today
RolloverInRecord ==
    recorded' # recorded /\ statsFile.today.date # DateOf(now)

\* The lifetime part of the rows of the configured upstreams is the same in
\* both documents, but for the upstreams in `except`
SameLifetimeRows(before, after, except) ==
    \A id \in ConfigIds(configFile) \ except :
        Get(after.by_config_id, id, NewRow) = Get(before.by_config_id, id, NewRow)

\* C17: a day rollover leaves today.success = today.fail = 0 and no non-zero
\* entry in today.by_config_id, and changes neither total nor the lifetime
\* counters, consecutive_fails and disabled_until of any upstream; in
\* update_stats_and_state the one outcome recorded is then counted on top.
C17_RolloverKeepsLifetime ==
    [][/\ \A p \in Procs :
              RolloverWrittenBy(p) =>
                  /\ statsFile'.today.date = DateOf(now)
                  /\ statsFile'.today.success = 0 /\ statsFile'.today.fail = 0
                  /\ \A id \in DOMAIN statsFile'.today.by_config_id :
                         statsFile'.today.by_config_id[id] = NewTodayRow
                  /\ statsFile'.total = statsFile.total
                  /\ SameLifetimeRows(statsFile, statsFile', {})
       /\ RolloverInRecord =>
              /\ statsFile'.today.date = DateOf(now)
              /\ statsFile'.today.success + statsFile'.today.fail = 1
              /\ Cardinality(DOMAIN statsFile'.today.by_config_id) = 1
              /\ statsFile'.total.success + statsFile'.total.fail
                     = statsFile.total.success + statsFile.total.fail + 1
              /\ SameLifetimeRows(statsFile, statsFile', DOMAIN statsFile'.today.by_config_id)]_vars

\* config.json after one admin mutation applied on its own to a config file:
\* the handler's read, its change and its save, with nothing in between
ApplyMutation(file, m) ==
    LET schemes == get_all_schemes(file)
    IN  IF m.op = "create" THEN CreateIn(schemes, m.scheme_name, m.config)
        ELSE IF m.config_id \notin ConfigIds(schemes) THEN file
        ELSE IF m.op = "update" THEN UpdateIn(schemes, m.config_id, m.config_in)
        ELSE DeleteIn(schemes, m.config_id)

\* C18: admin mutations are linearizable: when two clients have each
\* completed one mutation of the startup config, the persisted config is what
\* the two mutations give applied one after the other, in one of the two orders.
C18_AdminLinearizable ==
    \A p \in Procs, q \in Procs :
        (/\ p # q
         /\ ops = 2
         /\ Finished(p) /\ Finished(q)
         /\ hist[p].mutation # {} /\ hist[q].mutation # {}) =>
            \E m \in hist[p].mutation, n \in hist[q].mutation :
                configFile \in {ApplyMutation(ApplyMutation(AdminConfig, m), n),
                                ApplyMutation(ApplyMutation(AdminConfig, n), m)}

\* C19: once DELETE /admin/config/{id} has completed, the state document
\* holds no row for that id, neither lifetime nor of today.
C19_DeleteDropsRow ==
    \A p \in Procs :
        (Finished(p) /\ hist[p].kind = "delete" /\ hist[p].resp = {[status |-> 204, from |-> "proxy"]}) =>
            \A m \in hist[p].mutation :
                /\ m.config_id \notin DOMAIN statsFile.by_config_id
                /\ m.config_id \notin DOMAIN statsFile.today.by_config_id

\* The scheme name that sorts first among the schemes of the config
FirstScheme ==
    CHOOSE s \in DOMAIN configFile : \A o \in DOMAIN configFile : NameRank(s, 1) <= NameRank(o, 1)

\* The request of client p names no scheme of the config, which has schemes
Unmatched(h) ==
    /\ h.kind = "proxy"
    /\ DOMAIN configFile # {}
    /\ h.requested_model \notin DOMAIN configFile

\* C20: a request whose model matches no scheme of a non-empty config is
\* dispatched on the scheme whose name is lexicographically first, and a
\* success of that request writes the cursor of that scheme and leaves the
\* cursors stored under every other name, the requested one included, as
\* they were.
C20_FallbackScheme ==
    [][\A p \in Procs :
          Unmatched(hist'[p]) =>
              /\ hist'[p].scheme_name = FirstScheme'
              /\ \A i \in 1..Len(hist'[p].attempts) :
                     hist'[p].attempts[i].id \in IdsOf(configFile'[FirstScheme'])
              /\ RecordedBy(p, TRUE) =>
                     /\ FirstScheme' \in DOMAIN statsFile'.round_robin_state
                     /\ \A s \in DOMAIN statsFile'.round_robin_state :
                            s # FirstScheme' =>
                                /\ s \in DOMAIN statsFile.round_robin_state
                                /\ statsFile'.round_robin_state[s] = statsFile.round_robin_state[s]]_vars

\* A request for an unknown model was served by the scheme beta, the only
\* scheme of the config, and the cursor of beta was written
C20_Witness ==
    \E p \in Procs :
        /\ Finished(p)
        /\ Unmatched(hist[p])
        /\ hist[p].requested_model = "zeta"
        /\ DOMAIN configFile = {"beta"}
        /\ hist[p].scheme_name = "beta"
        /\ \E i \in 1..Len(hist[p].recs) : hist[p].recs[i].is_success
        /\ DOMAIN statsFile.round_robin_state = {"beta"}

\* C22: in every persisted state today.success is the sum of the
\* today.by_config_id[id].success of all rows and today.fail the sum of
\* their fail, and today's counters do not exceed the lifetime totals.
C22_TodayIsSumOfRows ==
    /\ statsFile.today.success = RowSum(statsFile.today.by_config_id, "success")
    /\ statsFile.today.fail = RowSum(statsFile.today.by_config_id, "fail")
    /\ statsFile.today.success <= statsFile.total.success
    /\ statsFile.today.fail <= statsFile.total.fail

\* After a day change, with two operations in flight: the deleted upstream C
\* had a recorded success and its lifetime row has been pruned, and an
\* outcome has been counted today
C22_Witness ==
    /\ statsFile.today.date = 1
    /\ statsFile.today.success + statsFile.today.fail >= 1
    /\ recorded["C"].success >= 1
    /\ "C" \notin ConfigIds(configFile)
    /\ "C" \notin DOMAIN statsFile.by_config_id
    /\ \A p \in Procs : proc[p].pc # "idle"

\* The upstream has both breaker fields
Armed(config) ==
    config.consecutive_failure_threshold # {} /\ config.disable_duration_seconds # {}

\* The row holds a disabled_until that the clock value t has reached: the
\* upstream was tripped, no success has cleared it, and the window is over
WindowExpired(row, t) ==
    row.disabled_until # {} /\ \A d \in row.disabled_until : d <= t

\* C23: the expiry of the disable window does not reset consecutive_fails:
\* an upstream whose disabled_until has passed in what a request read is
\* queued again, one further failure of an armed upstream whose window has
\* expired adds one to the count and sets disabled_until to now + duration
\* whatever the threshold, no recorded failure lowers the count or clears
\* disabled_until, a recorded success clears both, and from a clear row the
\* breaker trips exactly when the count reaches the threshold.
C23_ExpiryKeepsCount ==
    [][\A p \in Procs :
        /\ \A id \in DOMAIN hist'[p].snapshot :
               (/\ hist'[p].snapshot[id] # {}
                /\ \A d \in hist'[p].snapshot[id] : d <= hist'[p].now_time)
               => \E i \in 1..Len(hist'[p].queue) : hist'[p].queue[i] = id
        /\ RecordedBy(p, FALSE) =>
               LET config == Candidate(proc[p])
                   before == Get(statsFile.by_config_id, config.id, NewRow)
                   after == statsFile'.by_config_id[config.id]
               IN  /\ after.consecutive_fails = before.consecutive_fails + 1
                   /\ before.disabled_until # {} => after.disabled_until # {}
                   /\ (Armed(config) /\ WindowExpired(before, now)) =>
                          after.disabled_until = {now + d : d \in config.disable_duration_seconds}
                   /\ (Armed(config) /\ before.disabled_until = {}) =>
                          (after.disabled_until # {} <=>
                              \A th \in config.consecutive_failure_threshold :
                                  before.consecutive_fails + 1 >= th)
        /\ RecordedBy(p, TRUE) =>
               LET after == statsFile'.by_config_id[Candidate(proc[p]).id]
               IN  after.consecutive_fails = 0 /\ after.disabled_until = {}]_vars

\* A, with threshold 2, tripped at its second failure, the window expired,
\* and its third consecutive failure tripped it again
C23_Witness ==
    /\ "A" \in DOMAIN statsFile.by_config_id
    /\ statsFile.by_config_id["A"].consecutive_fails = 3
    /\ statsFile.by_config_id["A"].disabled_until = {now + 1}
    /\ recorded["A"].success = 0
    /\ \E p \in Procs :
           /\ hist[p].snapshot # EmptyMap
           /\ WindowExpired([disabled_until |-> hist[p].snapshot["A"]], hist[p].now_time)
           /\ \E i \in 1..Len(hist[p].recs) : hist[p].recs[i] = [id |-> "A", is_success |-> FALSE]

\* No client waits for file_lock inside its own `async with file_lock`, and
\* one client at most is inside
NoReacquire ==
    /\ \A p \in Procs : Phase(p) # "nested"
    /\ Cardinality(file_lock) <= 1

\* The attempts of a request follow its queue, each candidate once, and a
\* new call goes out only when every earlier attempt has its outcome
OneAttemptAtATime ==
    \A p \in Procs :
        LET h == hist[p]
        IN  /\ Len(h.attempts) <= Len(h.queue)
            /\ \A i \in 1..Len(h.attempts) : h.attempts[i].id = h.queue[i]
            /\ \A i, j \in 1..Len(h.queue) : i # j => h.queue[i] # h.queue[j]
            /\ Phase(p) = "calling" =>
                   /\ Len(h.attempts) = proc[p].pos - 1
                   /\ IdsOf(h.recs) = IdsOf(h.attempts)

\* C21: no handler asks for file_lock while it holds it and the handlers
\* exclude each other; a proxy request attempts the candidates of its queue
\* in order, each at most once and one at a time; and with a fair event loop
\* and upstream calls that return or time out, every proxy request gets its
\* response.
C21_NoDeadlockAndTermination ==
    /\ [](NoReacquire /\ OneAttemptAtATime)
    /\ \A p \in Procs : (hist[p].kind = "proxy") ~> (hist[p].resp # {})

\* A proxy request has failed over to its second candidate and returned its
\* response while the other client is queued for file_lock
C21_Witness ==
    \E p, q \in Procs :
        /\ p # q
        /\ Finished(p)
        /\ hist[p].kind = "proxy"
        /\ Len(hist[p].attempts) = 2
        /\ hist[p].resp # {}
        /\ Phase(q) = "waiting"

====
